---- MODULE Spec2Model ----
(***************************************************************************)
(* PAGE validator of ocrd_validators/page_validator.py: the recursive      *)
(* descent validate_consistency over a PAGE tree (Page, regions, TextLine, *)
(* Word, Glyph), the text selection get_text / set_text, and the entry     *)
(* point PageValidator.validate.                                           *)
(*                                                                         *)
(* Python strings that the code inspects (texts, delimiters, the strategy  *)
(* name) are sequences of one-character strings.  Tags, IDs and the points *)
(* attribute are only copied and compared, and are TLA+ strings.  An       *)
(* optional Python value is a set: {} for None, {v} for the value v.       *)
(***************************************************************************)
EXTENDS Integers, Sequences, FiniteSets, TLC

None == {}
Some(v) == {v}
The(opt) == CHOOSE v \in opt : TRUE

(***************************************************************************)
(* Python string operations used by the code.                              *)
(***************************************************************************)
Whitespace == {" ", "\n"}

RECURSIVE lstrip(_)
lstrip(s) ==
    IF s # <<>> /\ Head(s) \in Whitespace THEN lstrip(Tail(s)) ELSE s

RECURSIVE rstrip(_)
rstrip(s) ==
    IF s # <<>> /\ s[Len(s)] \in Whitespace
    THEN rstrip(SubSeq(s, 1, Len(s) - 1))
    ELSE s

strip(s) == rstrip(lstrip(s))

RECURSIVE join(_, _)
join(sep, tokens) ==
    IF tokens = <<>> THEN <<>>
    ELSE IF Len(tokens) = 1 THEN tokens[1]
    ELSE tokens[1] \o sep \o join(sep, Tail(tokens))

IsWhitespace(c) == c \in Whitespace

\* re.sub('\\s+', '', a)
re_sub_whitespace(a) == SelectSeq(a, LAMBDA c : ~IsWhitespace(c))

\* s in t, for Python strings: s occurs in t as a contiguous substring
str_in(s, t) ==
    \E i \in 1..(Len(t) + 1) :
        /\ i + Len(s) - 1 <= Len(t)
        /\ SubSeq(t, i, i + Len(s) - 1) = s

\* mutant: the strings are compared as they are
compare_with_whitespace(a, b) == a = b

compare_without_whitespace(a, b) == re_sub_whitespace(a) = re_sub_whitespace(b)

(***************************************************************************)
(* Geometry.  A shape is what shapely builds from a points attribute: the  *)
(* attribute itself, the verdicts the code reads from it (is_valid,        *)
(* is_empty, bounds[0], bounds[1], length) and the set of plane cells it   *)
(* covers, which decides within().                                         *)
(***************************************************************************)
Shape(points, is_valid, minx, miny, length, cells) ==
    [points |-> points, is_valid |-> is_valid, is_empty |-> cells = {},
     bounds |-> <<minx, miny>>, length |-> length, cells |-> cells]

\* a.within(b)
within(a, b) == a.cells # {} /\ a.cells \subseteq b.cells

\* bool(geometry): shapely geometries are falsy when empty, None is falsy
truthy(opt_geom) == opt_geom # None /\ ~The(opt_geom).is_empty

(***************************************************************************)
(* HIERARCHY, in source order (get_GraphicRegion is listed twice for      *)
(* PageType and twice for RegionType).                                     *)
(***************************************************************************)
RegionGetters ==
    << "get_AdvertRegion", "get_ChartRegion", "get_ChemRegion",
       "get_GraphicRegion", "get_GraphicRegion", "get_LineDrawingRegion",
       "get_MathsRegion", "get_MusicRegion", "get_NoiseRegion",
       "get_SeparatorRegion", "get_TableRegion", "get_TextRegion",
       "get_UnknownRegion" >>

Entry(class_, getter, concatenate_with) ==
    [class_ |-> class_, getter |-> getter, concatenate_with |-> concatenate_with]

\* mutant: TextLines are joined by a space
HIERARCHY_spaces ==
    [i \in 1..Len(RegionGetters) |-> Entry("PageType", Some(RegionGetters[i]), None)]
    \o [i \in 1..Len(RegionGetters) |-> Entry("RegionType", Some(RegionGetters[i]), None)]
    \o << Entry("TextRegionType", Some("get_TextLine"), Some(<<" ">>)),
          Entry("TextLineType",   Some("get_Word"),     Some(<<" ">>)),
          Entry("WordType",       Some("get_Glyph"),    Some(<<>>)),
          Entry("GlyphType",      None,                 None) >>

HIERARCHY ==
    [i \in 1..Len(RegionGetters) |-> Entry("PageType", Some(RegionGetters[i]), None)]
    \o [i \in 1..Len(RegionGetters) |-> Entry("RegionType", Some(RegionGetters[i]), None)]
    \o << Entry("TextRegionType", Some("get_TextLine"), Some(<<"\n">>)),
          Entry("TextLineType",   Some("get_Word"),     Some(<<" ">>)),
          Entry("WordType",       Some("get_Glyph"),    Some(<<>>)),
          Entry("GlyphType",      None,                 None) >>

RegionTags ==
    { "AdvertRegion", "ChartRegion", "ChemRegion", "GraphicRegion",
      "LineDrawingRegion", "MathsRegion", "MusicRegion", "NoiseRegion",
      "SeparatorRegion", "TableRegion", "TextRegion", "UnknownRegion" }

\* isinstance(node, class_), by the node's element name
isinstance(node, class_) ==
    CASE class_ = "PageType"       -> node.tag = "Page"
      [] class_ = "RegionType"     -> node.tag \in RegionTags
      [] class_ = "TextRegionType" -> node.tag = "TextRegion"
      [] class_ = "TextLineType"   -> node.tag = "TextLine"
      [] class_ = "WordType"       -> node.tag = "Word"
      [] class_ = "GlyphType"      -> node.tag = "Glyph"
      [] OTHER                     -> FALSE

Tags == RegionTags \cup {"Page", "TextLine", "Word", "Glyph"}

\* the name of the getter of the children of one element kind
getter_name == [tag \in Tags |-> "get_" \o tag]

\* getattr(node, getter)(): the node's children of the getter's element kind
getattr(page, n, getter) ==
    SelectSeq(page[n].children, LAMBDA c : getter = getter_name[page[c].tag])

(***************************************************************************)
(* Text selection.  A node's TextEquiv is a sequence of records            *)
(* [index, Unicode], index an optional integer.                            *)
(***************************************************************************)
TextEquivType(Unicode) == [index |-> None, Unicode |-> Unicode]

\* [x for x in textEquivs if x.index == 1], as positions in textEquivs
index1(textEquivs) == SelectSeq([i \in 1..Len(textEquivs) |-> i],
                                LAMBDA i : textEquivs[i].index = Some(1))

get_text(node, strategy) ==
    LET textEquivs == node.TextEquiv
    IN  IF textEquivs = <<>> THEN <<>>
        ELSE IF Len(textEquivs) > 1 /\ index1(textEquivs) # <<>>
             THEN strip(textEquivs[index1(textEquivs)[1]].Unicode)
             ELSE strip(textEquivs[1].Unicode)

\* mutant: the first alternative is overwritten whatever the indexes
set_text_first(node, text_, strategy) ==
    IF node.TextEquiv = <<>> THEN <<TextEquivType(strip(text_))>>
    ELSE [node.TextEquiv EXCEPT ![1].Unicode = strip(text_)]

\* mutant: every alternative is overwritten
set_text_all(node, text_, strategy) ==
    IF node.TextEquiv = <<>> THEN <<TextEquivType(strip(text_))>>
    ELSE [i \in 1..Len(node.TextEquiv) |->
             [node.TextEquiv[i] EXCEPT !.Unicode = strip(text_)]]

\* mutant: the text is added as a new alternative
set_text_added(node, text_, strategy) ==
    Append(node.TextEquiv, TextEquivType(strip(text_)))

\* returns the node's TextEquiv after the call
set_text(node, text_, strategy) ==
    LET text == strip(text_)
        textEquivs == node.TextEquiv
    IN  IF textEquivs = <<>> THEN Append(textEquivs, TextEquivType(text))
        ELSE IF Len(textEquivs) > 1 /\ index1(textEquivs) # <<>>
             THEN [textEquivs EXCEPT ![index1(textEquivs)[1]].Unicode = text]
             ELSE [textEquivs EXCEPT ![1].Unicode = text]

concatenate(page, nodes, concatenate_with, strategy) ==
    LET tokens == [i \in 1..Len(nodes) |-> get_text(page[nodes[i]], strategy)]
    IN  strip(join(concatenate_with, tokens))

(***************************************************************************)
(* Error records and the report.                                           *)
(***************************************************************************)
ConsistencyError(tag, ID, actual, expected) ==
    [type |-> "ConsistencyError", tag |-> tag, ID |-> ID,
     actual |-> actual, expected |-> expected]

CoordinateConsistencyError(tag, ID, outer, inner) ==
    [type |-> "CoordinateConsistencyError", tag |-> tag, ID |-> ID,
     outer |-> outer, inner |-> inner]

CoordinateValidityError(tag, ID, points) ==
    [type |-> "CoordinateValidityError", tag |-> tag, ID |-> ID, points |-> points]

ValidationReport == <<>>

add_error(report, err) == Append(report, err)

(***************************************************************************)
(* validate_consistency.  The tree is a function from node keys to nodes   *)
(* [tag, TextEquiv, Coords, Baseline, children]; the Page node stands for  *)
(* the PcGts root and its Page, its Coords being the Border's (None when   *)
(* the Page has no Border).  s is the state a call threads through:        *)
(* [page, report, consistent].                                             *)
(***************************************************************************)
Root == "Page"
pcGtsId == "pcgts"

node_id(n) == IF n = Root THEN pcGtsId ELSE n

\* lines 164-168, 187-191, 205-209
invalid(g) ==
    \/ ~g.is_valid
    \/ g.is_empty
    \/ g.bounds[1] < 0
    \/ g.bounds[2] < 0
    \/ g.length < 4

\* lines 157-160: parent = node.get_Border() for the Page, the node otherwise
parent_coords(page, n) == page[n].Coords

\* lines 156-173: None when the Page has no Border
node_poly_of(page, n) == parent_coords(page, n)

validate_node_coords(n, o, s) ==
    LET node == s.page[n]
        parent == parent_coords(s.page, n)
    IN  IF (o.check_coords \/ o.check_baseline) /\ parent # None /\ invalid(The(parent))
        THEN [s EXCEPT !.report = add_error(@, CoordinateValidityError(
                                      node.tag, node_id(n), The(parent).points)),
                       !.consistent = FALSE]
        ELSE s

\* lines 183-201
validate_child_coords(n, child, o, s) ==
    LET node == s.page[n]
        node_poly == node_poly_of(s.page, n)
        child_poly == The(s.page[child].Coords)
    IN  IF o.check_coords /\ truthy(node_poly)
        THEN IF invalid(child_poly)
             THEN [s EXCEPT !.report = add_error(@, CoordinateValidityError(
                                           s.page[child].tag, child, child_poly.points)),
                            !.consistent = FALSE]
             ELSE IF ~within(child_poly, The(node_poly))
             THEN [s EXCEPT !.report = add_error(@, CoordinateConsistencyError(
                                           node.tag, child, The(node_poly).points,
                                           child_poly.points)),
                            !.consistent = FALSE]
             ELSE s
        ELSE s

\* mutant: containment of the baseline is tested before its validity
validate_baseline_containment_first(n, o, s) ==
    LET node == s.page[n]
    IN  IF isinstance(node, "TextLineType") /\ o.check_baseline /\ node.Baseline # None
        THEN LET baseline_line == The(node.Baseline)
                 node_poly == The(node_poly_of(s.page, n))
             IN  IF ~within(baseline_line, node_poly)
                 THEN [s EXCEPT !.report = add_error(@, CoordinateConsistencyError(
                                               "Baseline", node_id(n), node_poly.points,
                                               baseline_line.points)),
                                !.consistent = FALSE]
                 ELSE IF invalid(baseline_line)
                 THEN [s EXCEPT !.report = add_error(@, CoordinateValidityError(
                                               "Baseline", node_id(n), baseline_line.points)),
                                !.consistent = FALSE]
                 ELSE s
        ELSE s

\* lines 202-218
validate_baseline(n, o, s) ==
    LET node == s.page[n]
    IN  IF isinstance(node, "TextLineType") /\ o.check_baseline /\ node.Baseline # None
        THEN LET baseline_line == The(node.Baseline)
                 node_poly == The(node_poly_of(s.page, n))
             IN  IF invalid(baseline_line)
                 THEN [s EXCEPT !.report = add_error(@, CoordinateValidityError(
                                               "Baseline", node_id(n), baseline_line.points)),
                                !.consistent = FALSE]
                 ELSE IF ~within(baseline_line, node_poly)
                 THEN [s EXCEPT !.report = add_error(@, CoordinateConsistencyError(
                                               "Baseline", node_id(n), node_poly.points,
                                               baseline_line.points)),
                                !.consistent = FALSE]
                 ELSE s
        ELSE s

\* lines 219-233
validate_text(n, children, concatenate_with, o, s) ==
    LET node == s.page[n]
    IN  IF concatenate_with # None /\ o.strictness # "off"
        THEN LET concatenated == concatenate(s.page, children, The(concatenate_with),
                                             o.strategy)
                 text_results == get_text(node, o.strategy)
             IN  IF concatenated # <<>> /\ text_results # <<>>
                    /\ concatenated # text_results
                 THEN IF o.strictness = "fix"
                      THEN [s EXCEPT !.consistent = FALSE,
                                     !.page[n].TextEquiv =
                                         set_text(node, concatenated, o.strategy)]
                      ELSE IF o.strictness = "strict"
                              \/ ~compare_without_whitespace(concatenated, text_results)
                      THEN [s EXCEPT !.consistent = FALSE,
                                     !.report = add_error(@, ConsistencyError(
                                         node.tag, node_id(n), text_results, concatenated))]
                      ELSE [s EXCEPT !.consistent = FALSE]
                 ELSE s
        ELSE s

RECURSIVE validate_consistency(_, _, _, _)
RECURSIVE for_children(_, _, _, _, _)
RECURSIVE for_hierarchy(_, _, _, _, _, _)

(***************************************************************************)
(* Statements run in sequence: The({e(x) : x \in {v}}) is e(v), with v     *)
(* computed first, as the statement before e computes it.                  *)
(***************************************************************************)

\* mutant: a child is checked against its parent before it is visited
RECURSIVE for_children_coords_first(_, _, _, _, _)
for_children_coords_first(i, children, n, o, s) ==
    IF i > Len(children) THEN s
    ELSE The({ for_children_coords_first(i + 1, children, n, o,
                   [page |-> sub.page, report |-> sub.report,
                    consistent |-> sub.consistent /\ s2.consistent]) :
               sub \in { validate_consistency(children[i], o, s2.page, s2.report) :
                         s2 \in {validate_child_coords(n, children[i], o, s)} },
               s2 \in {validate_child_coords(n, children[i], o, s)} })

\* lines 178-201: the loop over one getter's children, from the i-th on
for_children(i, children, n, o, s) ==
    IF i > Len(children) THEN s
    ELSE The({ for_children(i + 1, children, n, o, s2) :
               s2 \in { validate_child_coords(n, child, o,
                            [page |-> sub.page, report |-> sub.report,
                             consistent |-> sub.consistent /\ s.consistent]) :
                        child \in {children[i]},
                        sub \in {validate_consistency(children[i], o, s.page, s.report)} } })

\* lines 177-233: the loop body for one entry of _HIERARCHY that the node is
\* an instance of
hierarchy_entry(entry, n, o, s) ==
    The({ The({ validate_text(n, children, entry.concatenate_with, o,
                              validate_baseline(n, o, s1)) :
                s1 \in {for_children(1, children, n, o, s)} }) :
          children \in {getattr(s.page, n, The(entry.getter))} })

\* lines 174-176: the entries of _HIERARCHY the loop does not skip
entries_of(node) == SelectSeq(HIERARCHY, LAMBDA entry : isinstance(node, entry.class_))

\* line 174: the loop over the entries lo..hi of these, in order (the range
\* is split in two halves, run one after the other)
for_hierarchy(lo, hi, entries, n, o, s) ==
    IF lo > hi THEN s
    ELSE IF lo = hi THEN hierarchy_entry(entries[lo], n, o, s)
    ELSE The({ for_hierarchy(((lo + hi) \div 2) + 1, hi, entries, n, o, s1) :
               s1 \in {for_hierarchy(lo, (lo + hi) \div 2, entries, n, o, s)} })

\* lines 139-234; the PcGts root is the Page node
validate_consistency(n, o, page, report) ==
    IF isinstance(page[n], "GlyphType")
    THEN [page |-> page, report |-> report, consistent |-> TRUE]
    ELSE The({ for_hierarchy(1, Len(entries), entries, n, o, s) :
               entries \in {entries_of(page[n])},
               s \in {validate_node_coords(n, o, [page |-> page, report |-> report,
                                                  consistent |-> TRUE])} })

(***************************************************************************)
(* PageValidator.validate and the state of a caller: the tree it owns, the *)
(* arguments of its last call (the tree as it was when passed among them)  *)
(* and what the call gave back.                                            *)
(***************************************************************************)
VARIABLES page, args, report, raised, consistent

vars == <<page, args, report, raised, consistent>>

index1_name == <<"i", "n", "d", "e", "x", "1">>
index_name  == <<"i", "n", "d", "e", "x">>
bogus_name  == <<"b", "o", "g", "u", "s">>

Options(strictness, strategy, check_baseline, check_coords) ==
    [strictness |-> strictness, strategy |-> strategy,
     check_baseline |-> check_baseline, check_coords |-> check_coords]

\* lines 301-315; source names which of ocrd_page, ocrd_file, filename is set
validate(source, strictness, strategy, check_baseline, check_coords) ==
    /\ args' = [call |-> "PageValidator.validate", source |-> source, tree |-> page,
                o |-> Options(strictness, strategy, check_baseline, check_coords)]
    /\ consistent' = None
    /\ IF source = "none"
       THEN /\ raised' = Some("At least one of ocrd_page, ocrd_file or filename must be set")
            /\ report' = None
            /\ UNCHANGED page
       ELSE IF ~str_in(strategy, index1_name)
       THEN /\ raised' = Some("Element selection strategy not implemented")
            /\ report' = None
            /\ UNCHANGED page
       ELSE IF strictness \notin {"strict", "lax", "fix", "off"}
       THEN /\ raised' = Some("Strictness level not implemented")
            /\ report' = None
            /\ UNCHANGED page
       ELSE \E r \in {validate_consistency(Root, o, page, ValidationReport) :
                        o \in {Options(strictness, strategy, check_baseline,
                                       check_coords)}} :
                /\ page' = r.page
                /\ report' = Some(r.report)
                /\ raised' = None

\* a caller's own call of validate_consistency on the PcGts root, with a new
\* report (lines 139-234)
call_validate_consistency(strictness, strategy, check_baseline, check_coords) ==
    \E r \in {validate_consistency(Root, o, page, ValidationReport) :
                o \in {Options(strictness, strategy, check_baseline, check_coords)}} :
        /\ args' = [call |-> "validate_consistency", source |-> "ocrd_page",
                    tree |-> page,
                    o |-> Options(strictness, strategy, check_baseline, check_coords)]
        /\ page' = r.page
        /\ report' = Some(r.report)
        /\ raised' = None
        /\ consistent' = Some(r.consistent)

(***************************************************************************)
(* The trees a caller passes in.  Every tree has the Page, a TextRegion r1 *)
(* (directly on the Page, or inside a GraphicRegion g1), its TextLines l1  *)
(* and l2, the Words w1 and w2 of l1 and the Glyphs c1 and c2 of w1.       *)
(***************************************************************************)
MaxLen == 3
MaxAlt == 2

Alphabet == {"a", " ", "\n"}

RECURSIVE StringsOfLen(_)
StringsOfLen(k) ==
    IF k = 0 THEN {<<>>}
    ELSE {Append(t, c) : t \in StringsOfLen(k - 1), c \in Alphabet}

Strings(maxlen) == UNION {StringsOfLen(k) : k \in 0..maxlen}

Node(tag, TextEquiv, Coords, Baseline, children) ==
    [tag |-> tag, TextEquiv |-> TextEquiv, Coords |-> Coords,
     Baseline |-> Baseline, children |-> children]

\* a TextEquiv list with the one alternative text, without index
One(text) == <<TextEquivType(text)>>

NodeKeys == {"Page", "g1", "r1", "l1", "l2", "w1", "w2", "c1", "c2"}

\* nesting depth of a node, the Page being 0
Depth(nested) ==
    LET d == IF nested THEN 1 ELSE 0
    IN  [k \in NodeKeys |->
           CASE k = "Page" -> 0
             [] k = "g1" -> 1
             [] k = "r1" -> d + 1
             [] k \in {"l1", "l2"} -> d + 2
             [] k \in {"w1", "w2"} -> d + 3
             [] k \in {"c1", "c2"} -> d + 4]

\* rectangle (x0,y0)-(x1,y1) as a points attribute
Rect(x0, y0, x1, y1) ==
    ToString(x0) \o "," \o ToString(y0) \o " " \o ToString(x1) \o "," \o ToString(y0)
    \o " " \o ToString(x1) \o "," \o ToString(y1) \o " " \o ToString(x0) \o "," \o ToString(y1)

Segment(x0, y0, x1, y1) ==
    ToString(x0) \o "," \o ToString(y0) \o " " \o ToString(x1) \o "," \o ToString(y1)

\* polygons of an element at depth d: inside every good polygon of a smaller
\* depth; away from all of them; reaching left of the image; a triangle of
\* perimeter below 4; a self-intersecting outline
PolyGood(d)  == Shape(Rect(d, d, 20 - d, 20 - d), TRUE, d, d, 4 * (20 - 2 * d), 1..(8 - d))
PolyOut(d)   == Shape(Rect(30 + d, 30, 38, 38), TRUE, 30 + d, 30, 2 * (16 - d), {9})
PolyNeg(d)   == Shape(Rect(0 - 1, d, 20 - d, 20 - d), TRUE, 0 - 1, d, 82 - 6 * d, 0..(8 - d))
PolyTiny(d)  == Shape("7,7 8,7 7,8", TRUE, 7, 7, 3, {1})
PolyTwist(d) == Shape("7,7 9,9 9,7 7,9", FALSE, 7, 7, 9, {1})

\* baselines of a TextLine at depth d
LineGood(d)  == Shape(Segment(d + 1, 10, 19 - d, 10), TRUE, d + 1, 10, 18 - 2 * d, 1..(7 - d))
LineOut(d)   == Shape(Segment(30, 32, 38, 32), TRUE, 30, 32, 8, {9})
LineNeg(d)   == Shape(Segment(0 - 2, 10, 19 - d, 10), TRUE, 0 - 2, 10, 21 - d, 0..(7 - d))
LineShort(d) == Shape(Segment(8, 10, 10, 10), TRUE, 8, 10, 2, {1})
LineTwice(d) == Shape(Segment(8, 10, 8, 10), FALSE, 8, 10, 0, {1})

\* the tree with the given TextEquiv lists, polygons and baseline of l1
Tree(nested, text, poly, baseline) ==
    LET tags == [k \in NodeKeys |->
                   CASE k = "Page" -> "Page"
                     [] k = "g1" -> "GraphicRegion"
                     [] k = "r1" -> "TextRegion"
                     [] k \in {"l1", "l2"} -> "TextLine"
                     [] k \in {"w1", "w2"} -> "Word"
                     [] k \in {"c1", "c2"} -> "Glyph"]
        kids == [k \in NodeKeys |->
                   CASE k = "Page" -> IF nested THEN <<"g1">> ELSE <<"r1">>
                     [] k = "g1" -> <<"r1">>
                     [] k = "r1" -> <<"l1", "l2">>
                     [] k = "l1" -> <<"w1", "w2">>
                     [] k = "w1" -> <<"c1", "c2">>
                     [] OTHER -> <<>>]
        keys == IF nested THEN NodeKeys ELSE NodeKeys \ {"g1"}
    IN  [k \in keys |-> Node(tags[k], text[k], poly[k],
                             IF k = "l1" THEN baseline ELSE None, kids[k])]

NoText == [k \in NodeKeys |-> <<>>]

GoodPoly(nested) == [k \in NodeKeys |-> Some(PolyGood(Depth(nested)[k]))]

GoodTree(nested, text) ==
    Tree(nested, text, GoodPoly(nested), Some(LineGood(Depth(nested)["l1"])))

\* texts of the children of the node whose text is drawn from Strings(MaxLen)
ChildTexts == {<<>>, <<"a">>, <<" ", "a">>, <<"a", "a">>}

\* one parent and its two children carry text
FocusTexts ==
    { [NoText EXCEPT ![f[1]] = One(t), ![f[2]] = One(t1), ![f[3]] = One(t2)] :
        f \in {<<"r1", "l1", "l2">>, <<"l1", "w1", "w2">>, <<"w1", "c1", "c2">>},
        t \in Strings(MaxLen), t1 \in ChildTexts, t2 \in ChildTexts }

\* every level carries text
CascadeTexts ==
    { [NoText EXCEPT !["c1"] = One(tc1), !["c2"] = One(<<"a">>),
                     !["w1"] = One(tw1), !["w2"] = One(tw2),
                     !["l1"] = One(tl1), !["l2"] = One(tl2), !["r1"] = One(tr1)] :
        tc1 \in {<<"a">>, <<>>},
        tw1 \in {<<"a">>, <<"a", "a">>, <<>>},
        tw2 \in {<<"a">>, <<>>},
        tl1 \in {<<"a", "a">>, <<"a", "a", " ", "a">>, <<"a", " ", "a">>},
        tl2 \in {<<"a">>, <<>>},
        tr1 \in {<<"a", "a", " ", "a", "\n", "a">>, <<"a", "a", " ", "a">>,
                 <<"a", " ", "a", "\n", "a">>, <<"a", "a", "a", "a">>} }

RECURSIVE AltsOfLen(_)
AltsOfLen(k) ==
    IF k = 0 THEN {<<>>}
    ELSE {Append(alts, [index |-> i, Unicode |-> t]) :
            alts \in AltsOfLen(k - 1),
            i \in {None, Some(1), Some(2)},
            t \in {<<"a">>, <<"a", " ", "a">>}}

\* l1 carries up to MaxAlt alternatives, its Words read "a a"
AlternativeTexts ==
    { [NoText EXCEPT !["l1"] = alts, !["w1"] = One(<<"a">>), !["w2"] = One(<<"a">>)] :
        alts \in UNION {AltsOfLen(k) : k \in 0..MaxAlt} }

NoCall == [call |-> "none"]

TextTrees ==
    {GoodTree(FALSE, text) : text \in FocusTexts \cup AlternativeTexts}
    \cup {GoodTree(nested, text) : nested \in BOOLEAN, text \in CascadeTexts}

InitText ==
    /\ page \in TextTrees
    /\ args = NoCall
    /\ report = None
    /\ raised = None
    /\ consistent = None

\* validate with the default strategy and check flags
NextText ==
    \E strictness \in {"strict", "lax", "fix", "off"} :
        validate("ocrd_page", strictness, index1_name, TRUE, TRUE)

SpecText == InitText /\ [][NextText]_vars

\* the caller runs validate_consistency itself and reads what it returns
NextCall ==
    \E strictness \in {"strict", "lax", "fix", "off"} :
        call_validate_consistency(strictness, index1_name, TRUE, TRUE)

SpecCall == InitText /\ [][NextCall]_vars

(***************************************************************************)
(* Trees that differ in their geometry.  The text of l1 differs from its   *)
(* Words' text, every other text agrees with the children's.               *)
(***************************************************************************)
GeomText ==
    [NoText EXCEPT !["c1"] = One(<<"a">>), !["w1"] = One(<<"a">>), !["w2"] = One(<<"a">>),
                   !["l1"] = One(<<"a", "a">>), !["l2"] = One(<<"a">>),
                   !["r1"] = One(<<"a", "a", "\n", "a">>)]

Polys(k, nested) ==
    LET d == Depth(nested)[k]
    IN  CASE k = "Page" -> {None, Some(PolyGood(d)), Some(PolyNeg(d))}
          [] k = "r1" -> {Some(PolyGood(d)), Some(PolyOut(d)), Some(PolyNeg(d))}
          [] k = "l1" -> {Some(PolyGood(d)), Some(PolyOut(d)), Some(PolyNeg(d)),
                          Some(PolyTiny(d))}
          [] k = "w1" -> {Some(PolyGood(d)), Some(PolyOut(d)), Some(PolyTiny(d))}
          [] k = "c1" -> {Some(PolyGood(d)), Some(PolyOut(d)), Some(PolyTwist(d))}
          [] OTHER -> {Some(PolyGood(d))}

Baselines(d) ==
    {None, Some(LineGood(d)), Some(LineOut(d)), Some(LineNeg(d)), Some(LineShort(d)),
     Some(LineTwice(d))}

FlatTrees ==
    { Tree(FALSE, GeomText,
           [GoodPoly(FALSE) EXCEPT !["Page"] = pb, !["r1"] = pr, !["l1"] = pl,
                                   !["w1"] = pw, !["c1"] = pc],
           baseline) :
        pb \in Polys("Page", FALSE), pr \in Polys("r1", FALSE), pl \in Polys("l1", FALSE),
        pw \in Polys("w1", FALSE), pc \in Polys("c1", FALSE),
        baseline \in Baselines(Depth(FALSE)["l1"]) }

\* r1 inside the GraphicRegion g1
NestedTrees ==
    { Tree(TRUE, GeomText,
           [GoodPoly(TRUE) EXCEPT !["Page"] = pb, !["g1"] = pg, !["r1"] = pr, !["l1"] = pl],
           baseline) :
        pb \in {None, Some(PolyGood(0))},
        pg \in {Some(PolyGood(1)), Some(PolyOut(1))},
        pr \in {Some(PolyGood(2)), Some(PolyOut(2))},
        pl \in {Some(PolyGood(3)), Some(PolyOut(3))},
        baseline \in {Some(LineGood(3)), Some(LineOut(3))} }

InitGeom ==
    /\ page \in FlatTrees \cup NestedTrees
    /\ args = NoCall
    /\ report = None
    /\ raised = None
    /\ consistent = None

\* validate with the default strictness and strategy
NextGeom ==
    \E check_baseline \in BOOLEAN, check_coords \in BOOLEAN :
        validate("ocrd_page", "strict", index1_name, check_baseline, check_coords)

SpecGeom == InitGeom /\ [][NextGeom]_vars

(***************************************************************************)
(* Trees with text mismatches on several levels, with well-formed geometry *)
(* or with geometry that is reported.                                      *)
(***************************************************************************)
FrameTexts ==
    {t \in CascadeTexts : t["c1"] = One(<<"a">>) /\ t["l2"] = One(<<"a">>)}
    \cup AlternativeTexts

BadPoly(nested) ==
    [GoodPoly(nested) EXCEPT !["Page"] = Some(PolyNeg(0)),
                             !["l1"] = Some(PolyOut(Depth(nested)["l1"])),
                             !["c1"] = Some(PolyTwist(Depth(nested)["c1"]))]

InitFrame ==
    /\ page \in {GoodTree(nested, text) : nested \in BOOLEAN, text \in FrameTexts}
                \cup {Tree(nested, text, BadPoly(nested),
                           Some(LineShort(Depth(nested)["l1"]))) :
                        nested \in BOOLEAN, text \in FrameTexts}
    /\ args = NoCall
    /\ report = None
    /\ raised = None
    /\ consistent = None

NextFrame ==
    \E strictness \in {"strict", "lax", "fix", "off"}, check \in BOOLEAN :
        validate("ocrd_page", strictness, index1_name, check, check)

SpecFrame == InitFrame /\ [][NextFrame]_vars

(***************************************************************************)
(* Calls with any arguments, on a few of the trees above.                  *)
(***************************************************************************)
empty_name == <<>>

\* l1 reads "a a" as its Words do, or "aa", or "a"
ConfigTexts ==
    { [GeomText EXCEPT !["l1"] = One(tl1)] :
        tl1 \in {<<"a", " ", "a">>, <<"a", "a">>, <<"a">>} }

Init ==
    /\ page \in {GoodTree(FALSE, text) : text \in ConfigTexts}
                \cup {GoodTree(TRUE, GeomText)}
    /\ args = NoCall
    /\ report = None
    /\ raised = None
    /\ consistent = None

Next ==
    \/ \E source \in {"ocrd_page", "filename", "none"},
          strictness \in {"strict", "lax", "fix", "off", "bogus"},
          strategy \in {index1_name, index_name, bogus_name, empty_name},
          check_coords \in BOOLEAN :
            validate(source, strictness, strategy, TRUE, check_coords)
    \/ \E strictness \in {"strict", "fix"} :
            call_validate_consistency(strictness, index1_name, TRUE, TRUE)

Spec == Init /\ [][Next]_vars

(***************************************************************************)
(* Properties.                                                             *)
(***************************************************************************)
Range(seq) == {seq[i] : i \in 1..Len(seq)}

\* the records of the report the last call returned
Records == IF report = None THEN {} ELSE Range(The(report))

\* PageValidator.validate returned a report
Validated == args.call = "PageValidator.validate" /\ report # None

Delimiter(tag) ==
    CASE tag = "TextRegion" -> Some(<<"\n">>)
      [] tag = "TextLine"   -> Some(<<" ">>)
      [] tag = "Word"       -> Some(<<>>)
      [] OTHER              -> None

JoinedKind(tag) ==
    CASE tag = "TextRegion" -> "TextLine"
      [] tag = "TextLine"   -> "Word"
      [] tag = "Word"       -> "Glyph"
      [] OTHER              -> "none"

TextParents(tree) == {n \in DOMAIN tree : Delimiter(tree[n].tag) # None}

TextChildren(tree, n) ==
    SelectSeq(tree[n].children, LAMBDA c : tree[c].tag = JoinedKind(tree[n].tag))

\* position of the canonical alternative of a non-empty TextEquiv list
Selected(textEquivs) ==
    IF Len(textEquivs) > 1 /\ \E i \in 1..Len(textEquivs) : textEquivs[i].index = Some(1)
    THEN CHOOSE i \in 1..Len(textEquivs) :
            /\ textEquivs[i].index = Some(1)
            /\ \A j \in 1..(i - 1) : textEquivs[j].index # Some(1)
    ELSE 1

\* canonical text of a node: the trimmed text of its canonical alternative
Canonical(tree, n) ==
    IF tree[n].TextEquiv = <<>> THEN <<>>
    ELSE strip(tree[n].TextEquiv[Selected(tree[n].TextEquiv)].Unicode)

\* trimmed delimiter-join of the children's canonical texts
Joined(tree, n) ==
    strip(join(The(Delimiter(tree[n].tag)),
               [i \in 1..Len(TextChildren(tree, n)) |->
                    Canonical(tree, TextChildren(tree, n)[i])]))

NoWhitespace(text) == SelectSeq(text, LAMBDA c : c \notin {" ", "\n"})

Mismatch(actual, expected) ==
    actual # <<>> /\ expected # <<>> /\ actual # expected

WhitespaceMismatch(actual, expected) ==
    Mismatch(actual, expected) /\ NoWhitespace(actual) = NoWhitespace(expected)

TextErrors(n) == {e \in Records : e.type = "ConsistencyError" /\ e.ID = n}

\* C1: under strict a node with a join delimiter gets the record
\* ConsistencyError(tag, id, actual, expected) iff its canonical text and its
\* children's joined text are both non-empty and differ; under lax iff they
\* also differ with all whitespace removed; under off never.  The node gets
\* no other text record.
C1_TextErrorIff ==
    (Validated /\ args.o.strictness \in {"strict", "lax", "off"}) =>
        \A n \in TextParents(page) :
            LET actual == Canonical(page, n)
                expected == Joined(page, n)
                err == ConsistencyError(page[n].tag, n, actual, expected)
            IN  /\ err \in Records <=>
                      CASE args.o.strictness = "strict" -> Mismatch(actual, expected)
                        [] args.o.strictness = "lax" ->
                              /\ Mismatch(actual, expected)
                              /\ ~WhitespaceMismatch(actual, expected)
                        [] OTHER -> FALSE
                /\ TextErrors(n) \subseteq {err}

\* a lax run that reports one node and passes another whose text differs from
\* its children's in whitespace only
C1_Witness ==
    /\ Validated
    /\ args.o.strictness = "lax"
    /\ \E n \in TextParents(page) : TextErrors(n) # {}
    /\ \E n \in TextParents(page) :
          WhitespaceMismatch(Canonical(page, n), Joined(page, n)) /\ TextErrors(n) = {}

\* TextRegions all of whose TextLines (at least two) have canonical text
RegionsOfLines(tree) ==
    {n \in DOMAIN tree :
        /\ tree[n].tag = "TextRegion"
        /\ Len(TextChildren(tree, n)) >= 2
        /\ \A i \in 1..Len(TextChildren(tree, n)) :
              Canonical(tree, TextChildren(tree, n)[i]) # <<>>}

LinesJoinedBy(sep, tree, n) ==
    join(sep, [i \in 1..Len(TextChildren(tree, n)) |->
                   Canonical(tree, TextChildren(tree, n)[i])])

\* C2 as stated: a TextRegion whose text is its TextLines' texts joined by
\* single spaces gets no record under strict; one whose text differs from
\* that in whitespace only gets none under lax and one under strict.
C2_SpaceJoined ==
    Validated =>
        \A n \in RegionsOfLines(page) :
            LET actual == Canonical(page, n)
                spaced == LinesJoinedBy(<<" ">>, page, n)
            IN  /\ (args.o.strictness = "strict" /\ actual = spaced) => TextErrors(n) = {}
                /\ (args.o.strictness = "lax" /\ WhitespaceMismatch(actual, spaced))
                      => TextErrors(n) = {}
                /\ (args.o.strictness = "strict" /\ WhitespaceMismatch(actual, spaced))
                      => TextErrors(n) # {}

\* C2 amended: the same, with the TextLines' texts joined by newlines.
C2_NewlineJoined ==
    Validated =>
        \A n \in RegionsOfLines(page) :
            LET actual == Canonical(page, n)
                lines == LinesJoinedBy(<<"\n">>, page, n)
            IN  /\ (args.o.strictness = "strict" /\ actual = lines) => TextErrors(n) = {}
                /\ (args.o.strictness = "lax" /\ WhitespaceMismatch(actual, lines))
                      => TextErrors(n) = {}
                /\ (args.o.strictness = "strict" /\ WhitespaceMismatch(actual, lines))
                      => TextErrors(n) # {}

\* a strict run that reports a TextRegion whose text is its lines' texts
\* joined by spaces
C2_Witness ==
    /\ Validated
    /\ args.o.strictness = "strict"
    /\ \E n \in RegionsOfLines(page) :
          /\ Canonical(page, n) = LinesJoinedBy(<<" ">>, page, n)
          /\ TextErrors(n) # {}

\* C3: after a fix run every node with a join delimiter whose canonical text
\* and children's joined canonical text are both non-empty has them equal,
\* and the report holds no text record.
C3_FixRepairs ==
    (Validated /\ args.o.strictness = "fix") =>
        /\ \A n \in TextParents(page) : ~Mismatch(Canonical(page, n), Joined(page, n))
        /\ \A e \in Records : e.type # "ConsistencyError"

\* a fix run that repaired a node whose text agreed with its children's
\* before the run: a child was repaired first
C3_Witness ==
    /\ Validated
    /\ args.o.strictness = "fix"
    /\ \E n \in TextParents(page) :
          /\ ~Mismatch(Canonical(args.tree, n), Joined(args.tree, n))
          /\ Canonical(args.tree, n) # <<>>
          /\ Canonical(page, n) # Canonical(args.tree, n)

FixDone == Validated /\ args.o.strictness = "fix"

\* C4: a fix run on the tree a fix run left changes nothing in the tree.
C4_FixIdempotent == [][(FixDone /\ FixDone') => page' = page]_vars

\* a fix run that was given a tree an earlier run had repaired
C4_Witness ==
    /\ FixDone
    /\ args.tree \notin TextTrees
    /\ page = args.tree

\* number of records of a report that pass the test
CountOf(records, Test(_)) == Cardinality({i \in 1..Len(records) : Test(records[i])})

\* C5 as stated: with check_coords, a child whose valid polygon is not within
\* its parent's valid polygon gets exactly one CoordinateConsistencyError in
\* the report, with the parent's tag and points and the child's id and points.
C5_ExactlyOneContainmentError ==
    (Validated /\ args.o.check_coords) =>
        \A n \in DOMAIN page : \A child \in Range(page[n].children) :
            ( /\ page[n].Coords # None
              /\ ~invalid(The(page[n].Coords))
              /\ ~invalid(The(page[child].Coords))
              /\ ~within(The(page[child].Coords), The(page[n].Coords)) )
            => /\ CountOf(The(report),
                          LAMBDA e : /\ e.type = "CoordinateConsistencyError"
                                     /\ e.tag # "Baseline"
                                     /\ e.ID = child) = 1
               /\ CoordinateConsistencyError(page[n].tag, child,
                                             The(page[n].Coords).points,
                                             The(page[child].Coords).points) \in Records

\* C6 as stated: validate raises, returns no report and leaves the tree as
\* it was for every strategy other than "index1", every strictness outside
\* strict, lax, fix, off, and when no source is given.
C6_ConfigurationErrorRaised ==
    ( /\ args.call = "PageValidator.validate"
      /\ \/ args.o.strategy # index1_name
         \/ args.o.strictness \notin {"strict", "lax", "fix", "off"}
         \/ args.source = "none" )
    => /\ raised # None
       /\ report = None
       /\ page = args.tree

\* C7 as stated: validate_consistency returns false only if a record was
\* appended to the report.
C7_FalseOnlyWithRecord ==
    (args.call = "validate_consistency" /\ consistent = Some(FALSE)) => Records # {}

TextLines(tree) == {n \in DOMAIN tree : tree[n].tag = "TextLine"}

\* the record a TextLine's baseline calls for, if any
BaselineRecord(tree, l, o) ==
    IF ~o.check_baseline \/ tree[l].Baseline = None THEN {}
    ELSE IF invalid(The(tree[l].Baseline))
    THEN {CoordinateValidityError("Baseline", l, The(tree[l].Baseline).points)}
    ELSE IF ~within(The(tree[l].Baseline), The(tree[l].Coords))
    THEN {CoordinateConsistencyError("Baseline", l, The(tree[l].Coords).points,
                                     The(tree[l].Baseline).points)}
    ELSE {}

\* the records tagged Baseline that one visit of the node appends
BaselineVisit(tree, l, o) ==
    SelectSeq(validate_consistency(l, o, tree, ValidationReport).report,
              LAMBDA e : e.tag = "Baseline")

\* C8: a visit of a TextLine with check_baseline and a baseline appends
\* exactly one CoordinateValidityError tagged Baseline if the baseline is not
\* a valid line, else exactly one CoordinateConsistencyError tagged Baseline
\* if it is not within the TextLine's polygon, else no record tagged
\* Baseline; none without check_baseline or without a baseline.  The run's
\* report holds no other record tagged Baseline.
C8_BaselineRecords ==
    Validated =>
        /\ \A l \in TextLines(page) :
              /\ Range(BaselineVisit(args.tree, l, args.o)) = BaselineRecord(page, l, args.o)
              /\ Len(BaselineVisit(args.tree, l, args.o))
                    = Cardinality(BaselineRecord(page, l, args.o))
              /\ {e \in Records : e.tag = "Baseline" /\ e.ID = l}
                    = BaselineRecord(page, l, args.o)
        /\ \A e \in Records : e.tag = "Baseline" => e.ID \in TextLines(page)

\* a run that reported a valid baseline outside its TextLine's polygon
C8_Witness ==
    /\ Validated
    /\ args.o.check_baseline
    /\ \E e \in Records : e.tag = "Baseline" /\ e.type = "CoordinateConsistencyError"
    /\ \E e \in Records : e.tag # "Baseline"

\* C9: a strict, lax or off run leaves the tree as it was; a fix run changes
\* only the text of the canonical alternative of nodes whose text differed
\* from their children's joined text.  Ids, polygons, baselines, children and
\* the number and indexes of the alternatives stay in every run.
C9_Frame ==
    Validated =>
        /\ args.o.strictness \in {"strict", "lax", "off"} => page = args.tree
        /\ DOMAIN page = DOMAIN args.tree
        /\ \A n \in DOMAIN page :
              LET before == args.tree[n]
                  after == page[n]
              IN  /\ after.tag = before.tag
                  /\ after.Coords = before.Coords
                  /\ after.Baseline = before.Baseline
                  /\ after.children = before.children
                  /\ Len(after.TextEquiv) = Len(before.TextEquiv)
                  /\ \A i \in 1..Len(before.TextEquiv) :
                        /\ after.TextEquiv[i].index = before.TextEquiv[i].index
                        /\ after.TextEquiv[i].Unicode # before.TextEquiv[i].Unicode
                              => /\ args.o.strictness = "fix"
                                 /\ i = Selected(before.TextEquiv)
                                 /\ n \in TextParents(page)
                                 /\ Mismatch(Canonical(args.tree, n), Joined(page, n))

\* a fix run that repaired a text and reported geometry
C9_Witness ==
    /\ Validated
    /\ args.o.strictness = "fix"
    /\ page # args.tree
    /\ \E e \in Records : e.type \in {"CoordinateValidityError", "CoordinateConsistencyError"}

ContainmentErrors == {e \in Records : e.type = "CoordinateConsistencyError"}

\* C10 as stated: a CoordinateConsistencyError is in the report only for a
\* child or baseline that passed validity, against a polygon that exists and
\* passed validity.
C10_ContainmentGatedOnValidity ==
    Validated =>
        \A n \in DOMAIN page :
            /\ \A child \in Range(page[n].children) :
                  (\E e \in ContainmentErrors : e.tag # "Baseline" /\ e.ID = child)
                  => /\ page[n].Coords # None
                     /\ ~invalid(The(page[n].Coords))
                     /\ ~invalid(The(page[child].Coords))
            /\ (\E e \in ContainmentErrors : e.tag = "Baseline" /\ e.ID = n)
                  => /\ ~invalid(The(page[n].Coords))
                     /\ ~invalid(The(page[n].Baseline))

IsPrefix(p, q) == Len(p) <= Len(q) /\ SubSeq(q, 1, Len(p)) = p

IsSuffix(p, q) == Len(p) <= Len(q) /\ SubSeq(q, Len(q) - Len(p) + 1, Len(q)) = p

\* p occurs in q as a block of consecutive records
Occurs(p, q) == \E i \in 0..(Len(q) - Len(p)) : SubSeq(q, i + 1, i + Len(p)) = p

RECURSIVE Descendants(_, _)
Descendants(tree, n) ==
    Range(tree[n].children)
    \cup UNION {Descendants(tree, c) : c \in Range(tree[n].children)}

\* the records one visit of the node appends to an empty report
Visit(tree, n, o) == validate_consistency(n, o, tree, ValidationReport).report

\* the record for a visited node's own polygon, if any
OwnRecord(tree, n, o) ==
    IF /\ o.check_coords \/ o.check_baseline
       /\ tree[n].tag # "Glyph"
       /\ tree[n].Coords # None
       /\ invalid(The(tree[n].Coords))
    THEN <<CoordinateValidityError(tree[n].tag, node_id(n), The(tree[n].Coords).points)>>
    ELSE <<>>

\* the record for a child against its parent, if any
ChildRecord(tree, n, child, o) ==
    IF ~o.check_coords \/ tree[n].Coords = None THEN <<>>
    ELSE IF invalid(The(tree[child].Coords))
    THEN <<CoordinateValidityError(tree[child].tag, child, The(tree[child].Coords).points)>>
    ELSE IF ~within(The(tree[child].Coords), The(tree[n].Coords))
    THEN <<CoordinateConsistencyError(tree[n].tag, child, The(tree[n].Coords).points,
                                      The(tree[child].Coords).points)>>
    ELSE <<>>

\* the text record of a node, if any
TextRecord(tree, n, o) ==
    IF /\ n \in TextParents(tree)
       /\ Mismatch(Canonical(tree, n), Joined(tree, n))
       /\ \/ o.strictness = "strict"
          \/ o.strictness = "lax"
             /\ ~WhitespaceMismatch(Canonical(tree, n), Joined(tree, n))
    THEN <<ConsistencyError(tree[n].tag, node_id(n), Canonical(tree, n), Joined(tree, n))>>
    ELSE <<>>

====
